---- MODULE Spec2Model ----
(***************************************************************************)
(* OpenSearch query receiver: the scrape cycle, the OpenSearch client and  *)
(* the flattening of a search response into gauge measurements.            *)
(*                                                                         *)
(* Numbers that Go holds as float64 are kept in tenths (120.5 is 1205), so *)
(* that the halves the %.0f rendering rounds are representable.  A decoded *)
(* JSON value is one of  [num |-> n]  [str |-> s]  [null |-> TRUE]         *)
(* [arr |-> <<v, ...>>]  [obj |-> << <<name, v>>, ... >>]; the order of    *)
(* the fields of an obj is the order in which Go's range visits the map.   *)
(***************************************************************************)
EXTENDS Integers, Sequences, FiniteSets, TLC

VARIABLES
    \* one call of executeAndRecordQuery
    fpc,        \* "call" before it, "done" after
    fqc,        \* the QueryConfig it is called with
    fbackend,   \* what the backend does with its request
    fres        \* what it returned: [err, metrics]

fvars == <<fpc, fqc, fbackend, fres>>

VARIABLES
    \* a configuration handed to newScraperInstance, and the client made of it
    cpc,        \* "new", then "rejected" or "ready", then "called"
    ccfg,       \* the Config
    cerr,       \* the error of Validate
    ccall       \* the last call of the client: its inputs, request and result

cvars == <<cpc, ccfg, cerr, ccall>>

VARIABLES
    \* one metricsReceiver
    config,     \* its Config, as newScraperInstance left it
    rcv,        \* "created", "started" (Start returned nil), "failed"
                \*   (Start returned an error), "shutdown"
    ping,       \* what Ping returned in Start: "none", "ok", "failed"
    loop,       \* collectionLoop: "none", "delay", "first", "collect",
                \*   "select", "exited"
    cancelled,  \* r.cancel() has been called: ctx.Done() is closed
    tick,       \* a tick waits in ticker.C (a channel of capacity one)
    ticks,      \* the periods of the ticker that have elapsed
    dropped,    \* the ticks the ticker dropped because one was waiting
    ncycles,    \* the calls of collect so far
    cycle       \* the last call of collect

mvars == <<config, rcv, ping, loop, cancelled, tick, ticks, dropped, ncycles,
          cycle>>

vars == <<fpc, fqc, fbackend, fres, cpc, ccfg, cerr, ccall,
          config, rcv, ping, loop, cancelled, tick, ticks, dropped, ncycles,
          cycle>>

-----------------------------------------------------------------------------
(* Decoded JSON values *)

Num(n) == [num |-> n]
Str(s) == [str |-> s]
Null == [null |-> TRUE]
Arr(s) == [arr |-> s]
Obj(s) == [obj |-> s]

\* float64(i) of an integer, in tenths
Float(i) == 10 * i

IsNum(v) == "num" \in DOMAIN v
IsStr(v) == "str" \in DOMAIN v
IsArr(v) == "arr" \in DOMAIN v
IsObj(v) == "obj" \in DOMAIN v

\* m[k] present in the map
Has(m, k) == \E i \in 1..Len(m.obj) : m.obj[i][1] = k
\* m[k]; Null when the key is missing (the nil interface value)
Get(m, k) == IF Has(m, k)
             THEN m.obj[CHOOSE i \in 1..Len(m.obj) : m.obj[i][1] = k][2]
             ELSE Null

\* fmt.Sprintf("%.0f", f): nearest integer, a half goes to the even neighbour
Fmt0f(t) == LET q == t \div 10
                r == t % 10
            IN  ToString(IF r < 5 THEN q
                         ELSE IF r > 5 THEN q + 1
                         ELSE IF q % 2 = 0 THEN q ELSE q + 1)

\* the labels l with key k put (pcommon.Map.PutStr: insert or overwrite)
PutStr(l, k, v) == [x \in (DOMAIN l) \cup {k} |-> IF x = k THEN v ELSE l[x]]

\* for k, v := range labels { attrs.PutStr(k, v) }
PutAll(l, labels) ==
    [x \in (DOMAIN l) \cup (DOMAIN labels) |->
        IF x \in DOMAIN labels THEN labels[x] ELSE l[x]]

NoLabels == [x \in {} |-> ""]

-----------------------------------------------------------------------------
(* scraper: from a SearchResponse to metrics *)

Metric(name, description, unit, value, timestamp, attrs) ==
    [name |-> name, description |-> description, unit |-> unit,
     value |-> value, timestamp |-> timestamp, attrs |-> attrs]

\* the data point attributes recordGaugeMetric sets
gaugeAttrs(queryConfig) ==
    LET a1 == PutStr(NoLabels, "query.name", queryConfig.Name)
        a2 == IF queryConfig.Description # ""
              THEN PutStr(a1, "query.description", queryConfig.Description)
              ELSE a1
    IN  PutAll(a2, queryConfig.Labels)

recordGaugeMetric(name, description, unit, value, queryConfig, timestamp) ==
    <<Metric(name, description, unit, value, timestamp, gaugeAttrs(queryConfig))>>

\* a key that numbers the buckets without a key from one
bucketKey_OneBased(bucketMap, i) ==
    LET keyVal == Get(bucketMap, "key")
    IN  IF IsStr(keyVal) THEN keyVal.str
        ELSE IF IsNum(keyVal) THEN Fmt0f(keyVal.num)
        ELSE "bucket_" \o ToString(i + 1)

\* the key of the bucket at zero-based index i
bucketKey(bucketMap, i) ==
    LET keyVal == Get(bucketMap, "key")
    IN  IF IsStr(keyVal) THEN keyVal.str
        ELSE IF IsNum(keyVal) THEN Fmt0f(keyVal.num)
        ELSE "bucket_" \o ToString(i)

\* bucket attributes with the custom labels put first
bucketAttrs_LabelsFirst(queryConfig, key, aggName) ==
    LET a1 == PutAll(PutStr(NoLabels, "query.name", queryConfig.Name), queryConfig.Labels)
        a2 == PutStr(a1, "bucket.key", key)
    IN  PutStr(a2, "aggregation", aggName)

\* the data point attributes processBuckets sets on a bucket's doc_count
bucketAttrs(queryConfig, key, aggName) ==
    LET a1 == PutStr(NoLabels, "query.name", queryConfig.Name)
        a2 == PutStr(a1, "bucket.key", key)
        a3 == PutStr(a2, "aggregation", aggName)
    IN  PutAll(a3, queryConfig.Labels)

bucketDocCount(baseMetricName, aggName, bucketMap, key, queryConfig, timestamp) ==
    LET docCount == Get(bucketMap, "doc_count")
    IN  IF IsNum(docCount)
        THEN <<Metric(baseMetricName \o ".agg." \o aggName \o ".bucket.doc_count",
                      "Bucket document count for " \o aggName,
                      "documents", docCount.num, timestamp,
                      bucketAttrs(queryConfig, key, aggName))>>
        ELSE <<>>

\* a walk that forgets the bucket key on the way down
nestedBaseMetric_NoKey(baseMetricName, key) == baseMetricName

\* the base metric name of the aggregations nested in a bucket
nestedBaseMetric(baseMetricName, key) == baseMetricName \o "." \o key

isNestedAgg(nestedAggName) ==
    /\ nestedAggName # "key"
    /\ nestedAggName # "doc_count"
    /\ nestedAggName # "key_as_string"

aggValueMetric(baseMetricName, aggName, aggMap, queryConfig, timestamp) ==
    LET value == Get(aggMap, "value")
    IN  IF IsNum(value)
        THEN recordGaugeMetric(baseMetricName \o ".agg." \o aggName,
                               "Aggregation result for " \o aggName,
                               "", value.num, queryConfig, timestamp)
        ELSE <<>>

\* a doc_count step that is skipped on a node with buckets
aggDocCountMetric_UnlessBuckets(baseMetricName, aggName, aggMap, queryConfig, timestamp) ==
    LET docCount == Get(aggMap, "doc_count")
    IN  IF IsNum(docCount) /\ ~IsArr(Get(aggMap, "buckets"))
        THEN recordGaugeMetric(baseMetricName \o ".agg." \o aggName \o ".doc_count",
                               "Document count for " \o aggName,
                               "documents", docCount.num, queryConfig, timestamp)
        ELSE <<>>

aggDocCountMetric(baseMetricName, aggName, aggMap, queryConfig, timestamp) ==
    LET docCount == Get(aggMap, "doc_count")
    IN  IF IsNum(docCount)
        THEN recordGaugeMetric(baseMetricName \o ".agg." \o aggName \o ".doc_count",
                               "Document count for " \o aggName,
                               "documents", docCount.num, queryConfig, timestamp)
        ELSE <<>>

RECURSIVE processAggregation(_, _, _, _, _)
RECURSIVE processBucketsFrom(_, _, _, _, _, _)
RECURSIVE processNested(_, _, _, _, _, _)

\* the loop over the fields of one bucket, from field j on
processNested(j, baseMetricName, key, bucketMap, queryConfig, timestamp) ==
    IF j > Len(bucketMap.obj) THEN <<>>
    ELSE LET nestedAggName == bucketMap.obj[j][1]
             nestedAggValue == bucketMap.obj[j][2]
             here == IF isNestedAgg(nestedAggName)
                     THEN processAggregation(nestedBaseMetric(baseMetricName, key),
                                             nestedAggName, nestedAggValue,
                                             queryConfig, timestamp)
                     ELSE <<>>
         IN  here \o processNested(j + 1, baseMetricName, key, bucketMap,
                                   queryConfig, timestamp)

\* the loop of processBuckets over the buckets, from the bucket at index i on
processBucketsFrom(i, baseMetricName, aggName, buckets, queryConfig, timestamp) ==
    IF i >= Len(buckets) THEN <<>>
    ELSE LET bucket == buckets[i + 1]
             here == IF ~IsObj(bucket) THEN <<>>
                     ELSE LET key == bucketKey(bucket, i)
                          IN  bucketDocCount(baseMetricName, aggName, bucket, key,
                                             queryConfig, timestamp)
                              \o processNested(1, baseMetricName, key, bucket,
                                               queryConfig, timestamp)
         IN  here \o processBucketsFrom(i + 1, baseMetricName, aggName, buckets,
                                        queryConfig, timestamp)

processBuckets(baseMetricName, aggName, buckets, queryConfig, timestamp) ==
    processBucketsFrom(0, baseMetricName, aggName, buckets, queryConfig, timestamp)

processAggregation(baseMetricName, aggName, aggValue, queryConfig, timestamp) ==
    IF ~IsObj(aggValue) THEN <<>>
    ELSE LET buckets == Get(aggValue, "buckets")
         IN  aggValueMetric(baseMetricName, aggName, aggValue, queryConfig, timestamp)
             \o aggDocCountMetric(baseMetricName, aggName, aggValue, queryConfig, timestamp)
             \o (IF IsArr(buckets)
                 THEN processBuckets(baseMetricName, aggName, buckets.arr,
                                     queryConfig, timestamp)
                 ELSE <<>>)

RECURSIVE processAggregationsFrom(_, _, _, _, _)
processAggregationsFrom(j, baseMetricName, aggregations, queryConfig, timestamp) ==
    IF j > Len(aggregations.obj) THEN <<>>
    ELSE processAggregation(baseMetricName, aggregations.obj[j][1],
                            aggregations.obj[j][2], queryConfig, timestamp)
         \o processAggregationsFrom(j + 1, baseMetricName, aggregations,
                                    queryConfig, timestamp)

processAggregations(baseMetricName, aggregations, queryConfig, timestamp) ==
    processAggregationsFrom(1, baseMetricName, aggregations, queryConfig, timestamp)

\* a prefix without the default for an empty metric_name
metricPrefix_NoDefault(queryConfig) == queryConfig.MetricName

\* the base metric name of a query
metricPrefix(queryConfig) ==
    IF queryConfig.MetricName = ""
    THEN "opensearch.query." \o queryConfig.Name
    ELSE queryConfig.MetricName

\* the five gauges recorded for every response
summaryMetrics(resp, queryConfig, timestamp) ==
    LET metricName == metricPrefix(queryConfig)
    IN  recordGaugeMetric(metricName \o ".count",
                          "Number of documents matching the query", "hits",
                          Float(resp.Hits), queryConfig, timestamp)
        \o recordGaugeMetric(metricName \o ".took_ms",
                          "Query execution time in milliseconds", "ms",
                          Float(resp.Took), queryConfig, timestamp)
        \o recordGaugeMetric(metricName \o ".shards.total",
                          "Total number of shards queried", "shards",
                          Float(resp.Shards.Total), queryConfig, timestamp)
        \o recordGaugeMetric(metricName \o ".shards.successful",
                          "Number of successful shards", "shards",
                          Float(resp.Shards.Successful), queryConfig, timestamp)
        \o recordGaugeMetric(metricName \o ".shards.failed",
                          "Number of failed shards", "shards",
                          Float(resp.Shards.Failed), queryConfig, timestamp)

\* a version that walks the aggregations before it records the summary
recordResponse_AggsFirst(resp, queryConfig, timestamp) ==
    (IF IsObj(resp.Aggregations) /\ Len(resp.Aggregations.obj) > 0
     THEN processAggregations(metricPrefix(queryConfig), resp.Aggregations,
                              queryConfig, timestamp)
     ELSE <<>>)
    \o summaryMetrics(resp, queryConfig, timestamp)

\* what executeAndRecordQuery appends once ExecuteQuery has returned resp
recordResponse(resp, queryConfig, timestamp) ==
    summaryMetrics(resp, queryConfig, timestamp)
    \o (IF IsObj(resp.Aggregations) /\ Len(resp.Aggregations.obj) > 0
        THEN processAggregations(metricPrefix(queryConfig), resp.Aggregations,
                                 queryConfig, timestamp)
        ELSE <<>>)

-----------------------------------------------------------------------------
(* Config *)

\* durations and instants are counted in half seconds
Second == 2
Minute == 60 * Second

\* the nil error
NoError == [kind |-> "nil"]
Err(msg) == [kind |-> msg]

\* a loop over the queries that looks at their names only
RECURSIVE firstBadQuery_NameOnly(_, _)
firstBadQuery_NameOnly(queries, i) ==
    IF i > Len(queries) THEN 0
    ELSE IF queries[i].Name = "" THEN i
    ELSE firstBadQuery_NameOnly(queries, i + 1)

\* the first query Validate rejects, from query i on; 0 when there is none
RECURSIVE firstBadQuery(_, _)
firstBadQuery(queries, i) ==
    IF i > Len(queries) THEN 0
    ELSE IF queries[i].Name = "" THEN i
    ELSE IF ~IsObj(queries[i].Query) \/ Len(queries[i].Query.obj) = 0 THEN i
    ELSE firstBadQuery(queries, i + 1)

\* the error Validate returns; NoError when the configuration is accepted
validateError(cfg) ==
    IF cfg.Mode = "" THEN Err("mode must be specified (direct or proxy)")
    ELSE IF cfg.Mode # "direct" /\ cfg.Mode # "proxy"
    THEN Err("invalid mode '" \o cfg.Mode \o "': must be 'direct' or 'proxy'")
    ELSE IF cfg.Mode = "direct" /\ cfg.Endpoint = ""
    THEN Err("endpoint must be specified in direct mode")
    ELSE IF cfg.Mode = "proxy" /\ cfg.ProxyEndpoint = ""
    THEN Err("proxy_endpoint must be specified in proxy mode")
    ELSE IF Len(cfg.Queries) = 0 THEN Err("at least one query must be configured")
    ELSE IF firstBadQuery(cfg.Queries, 1) # 0
    THEN LET i == firstBadQuery(cfg.Queries, 1)
         IN  IF cfg.Queries[i].Name = ""
             THEN Err("query[" \o ToString(i - 1) \o "]: name must be specified")
             ELSE Err("query[" \o ToString(i - 1) \o "] (" \o cfg.Queries[i].Name
                      \o "): query body must be specified")
    ELSE IF cfg.IndexPattern = "" THEN Err("index_pattern must be specified")
    ELSE NoError

\* the time field Validate leaves in the configuration
defaultTimeField(timeField) ==
    IF timeField = "" THEN "@timestamp" ELSE timeField

\* a Validate that leaves a zero lookback period as it is
defaultLookbackPeriod_Keep(lookbackPeriod) == lookbackPeriod

\* the lookback period Validate leaves in the configuration
defaultLookbackPeriod(lookbackPeriod) ==
    IF lookbackPeriod = 0 THEN 5 * Minute ELSE lookbackPeriod

\* Validate: the error, and the configuration as the call leaves it
Validate(cfg) ==
    IF validateError(cfg) # NoError
    THEN [err |-> validateError(cfg), cfg |-> cfg]
    ELSE [err |-> NoError,
          cfg |-> [cfg EXCEPT !.TimeField = defaultTimeField(@),
                              !.LookbackPeriod = defaultLookbackPeriod(@)]]

GetEndpoint(cfg) == IF cfg.Mode = "proxy" THEN cfg.ProxyEndpoint ELSE cfg.Endpoint

\* credentials used in either mode
UsesBasicAuth_AnyMode(cfg) == cfg.Username # "" /\ cfg.Password # ""

UsesBasicAuth(cfg) ==
    cfg.Mode = "direct" /\ cfg.Username # "" /\ cfg.Password # ""

-----------------------------------------------------------------------------
(* OpenSearchClient *)

\* time.Format(time.RFC3339) of the instant t: the text holds whole seconds;
\* it is kept as the second it denotes
RFC3339(t) == [rfc3339 |-> t \div Second]

\* the range clause on the time field, for the clock reading now
timeFilter(cfg, now) ==
    LET startTime == now - cfg.LookbackPeriod
    IN  Obj(<< <<"range",
                 Obj(<< <<cfg.TimeField,
                          Obj(<< <<"gte", RFC3339(startTime)>>,
                                 <<"lte", RFC3339(now)>> >>)>> >>)>> >>)

\* a filter that leaves the query as it is
addTimeRangeFilter_NoWrap(cfg, query, now) == query

addTimeRangeFilter(cfg, query, now) ==
    Obj(<< <<"bool", Obj(<< <<"must", Arr(<<query>>)>>,
                            <<"filter", Arr(<<timeFilter(cfg, now)>>)>> >>)>> >>)

\* the SearchRequest ExecuteQuery marshals
searchRequest(cfg, queryConfig, now) ==
    [Query |-> addTimeRangeFilter(cfg, queryConfig.Query, now), Size |-> 10000]

\* an ExecuteQuery that writes the wrapped query back into the QueryConfig
queryAfterExecute_Aliased(queryConfig, searchReq) ==
    [queryConfig EXCEPT !.Query = searchReq.Query]

\* the QueryConfig as ExecuteQuery leaves it: only the local searchReq is
\* assigned, the caller's value is not written
queryAfterExecute(queryConfig, searchReq) == queryConfig

\* the credentials SetBasicAuth puts on a request, if any
basicAuth(cfg) ==
    IF UsesBasicAuth(cfg)
    THEN [set |-> TRUE, username |-> cfg.Username, password |-> cfg.Password]
    ELSE [set |-> FALSE]

\* the POST ExecuteQuery builds
searchHTTPRequest(cfg, queryConfig, now) ==
    [method |-> "POST",
     url |-> GetEndpoint(cfg) \o "/" \o cfg.IndexPattern \o "/_search",
     body |-> searchRequest(cfg, queryConfig, now),
     auth |-> basicAuth(cfg)]

NoResponse == [none |-> TRUE]
Malformed == [malformed |-> TRUE]

\* the int a JSON field decodes to: a missing field or null leaves the zero
\* value, an integral number is taken, anything else is a decoding error
IntFieldOK(m, k) ==
    LET v == Get(m, k) IN v = Null \/ (IsNum(v) /\ v.num % 10 = 0)
IntField(m, k) ==
    LET v == Get(m, k) IN IF IsNum(v) THEN v.num \div 10 ELSE 0
ObjFieldOK(m, k) == LET v == Get(m, k) IN v = Null \/ IsObj(v)
ObjField(m, k) == LET v == Get(m, k) IN IF IsObj(v) THEN v ELSE Obj(<<>>)

\* whether json.Unmarshal(body, &searchResp) succeeds
unmarshalOK(val) ==
    /\ IsObj(val)
    /\ IntFieldOK(val, "took")
    /\ ObjFieldOK(val, "_shards")
    /\ \A k \in {"total", "successful", "skipped", "failed"} :
          IntFieldOK(ObjField(val, "_shards"), k)
    /\ ObjFieldOK(val, "hits")
    /\ ObjFieldOK(ObjField(val, "hits"), "total")
    /\ IntFieldOK(ObjField(ObjField(val, "hits"), "total"), "value")
    /\ ObjFieldOK(val, "aggregations")

\* the SearchResponse json.Unmarshal fills
unmarshal(val) ==
    [Took |-> IntField(val, "took"),
     Shards |-> [Total |-> IntField(ObjField(val, "_shards"), "total"),
                 Successful |-> IntField(ObjField(val, "_shards"), "successful"),
                 Skipped |-> IntField(ObjField(val, "_shards"), "skipped"),
                 Failed |-> IntField(ObjField(val, "_shards"), "failed")],
     Hits |-> IntField(ObjField(ObjField(val, "hits"), "total"), "value"),
     Aggregations |-> Get(val, "aggregations")]

StatusOK == 200

\* a status check that lets every 2xx pass
isStatusError_Non2xx(status) == status < 200 \/ status > 299

\* whether the status of a reply makes ExecuteQuery return the status error
isStatusError(status) == status # StatusOK

ErrRequest == "failed to execute request"
ErrRead == "failed to read response"
ErrStatus == "unexpected status code"
ErrUnmarshal == "failed to unmarshal response"

Failure(kind) == [resp |-> NoResponse, err |-> [kind |-> kind]]

\* the error for a reply whose status is not accepted: the status code and
\* the raw body are the arguments of its message
statusError(status, raw) ==
    [resp |-> NoResponse, err |-> [kind |-> ErrStatus, code |-> status, body |-> raw]]

\* What ExecuteQuery returns.  ctxDone: the context is already cancelled or
\* past its deadline when the request is issued.  backend: what the other
\* side does with the request -
\*   [kind |-> "refused"]  the connection fails
\*   [kind |-> "hang"]     no reply before the deadline
\*   [kind |-> "reply", status, raw, val, complete]  a reply with that
\*       status whose body is the bytes raw, decoding to the JSON value val
\*       (Malformed when raw is no JSON); complete = the body arrives whole
ExecuteQuery(cfg, queryConfig, ctxDone, backend) ==
    IF ctxDone \/ backend.kind # "reply" THEN Failure(ErrRequest)
    ELSE IF ~backend.complete THEN Failure(ErrRead)
    ELSE IF isStatusError(backend.status) THEN statusError(backend.status, backend.raw)
    ELSE IF ~unmarshalOK(backend.val) THEN Failure(ErrUnmarshal)
    ELSE [resp |-> unmarshal(backend.val), err |-> NoError]

\* whether the request of a call reaches the network
requestIssued(ctxDone) == ~ctxDone

\* the GET Ping builds
pingHTTPRequest(cfg) ==
    [method |-> "GET",
     url |-> GetEndpoint(cfg) \o "/_cluster/health",
     auth |-> basicAuth(cfg)]

ErrPing == "failed to ping OpenSearch"
ErrPingStatus == "ping failed with status"

\* a status test of Ping that lets every 2xx pass
isPingStatusError_Non2xx(status) == status < 200 \/ status > 299

\* whether the status of the health reply makes Ping return an error
isPingStatusError(status) == status # StatusOK

\* What Ping returns: the body is read only for the message of the status
\* error, and what ReadAll returns as error is dropped
Ping(cfg, ctxDone, backend) ==
    IF ctxDone \/ backend.kind # "reply" THEN [kind |-> ErrPing]
    ELSE IF isPingStatusError(backend.status)
         THEN [kind |-> ErrPingStatus, code |-> backend.status]
    ELSE NoError

-----------------------------------------------------------------------------
(* executeAndRecordQuery *)

\* a version that records the summary of the (absent) response before it
\* looks at the error
executeAndRecordQuery_RecordFirst(cfg, queryConfig, ctxDone, backend, timestamp) ==
    LET r == ExecuteQuery(cfg, queryConfig, ctxDone, backend)
    IN  IF r.err # NoError
        THEN [err |-> [kind |-> "query execution failed", cause |-> r.err],
              metrics |-> summaryMetrics(unmarshal(Obj(<<>>)), queryConfig, timestamp)]
        ELSE [err |-> NoError,
              metrics |-> recordResponse(r.resp, queryConfig, timestamp)]

\* the error it returns and the metrics it appends to the ScopeMetrics
executeAndRecordQuery(cfg, queryConfig, ctxDone, backend, timestamp) ==
    LET r == ExecuteQuery(cfg, queryConfig, ctxDone, backend)
    IN  IF r.err # NoError
        THEN [err |-> [kind |-> "query execution failed", cause |-> r.err],
              metrics |-> <<>>]
        ELSE [err |-> NoError,
              metrics |-> recordResponse(r.resp, queryConfig, timestamp)]

-----------------------------------------------------------------------------
(* Inputs: query configurations and backend replies *)

MaxBuckets == 2     \* buckets in one buckets list
MaxAggs == 2        \* aggregations at the top of a response
NowBase == 1400     \* the earliest clock reading

Labels1(k, v) == PutStr(NoLabels, k, v)

QueryBody == Obj(<< <<"match", Obj(<< <<"level", Str("ERROR")>> >>)>> >>)
MatchAll == Obj(<< <<"match_all", Obj(<<>>)>> >>)

QC(name, description, metricName, labels, query) ==
    [Name |-> name, Description |-> description, MetricName |-> metricName,
     Labels |-> labels, Query |-> query]

FlattenQueryConfigs ==
    { QC("errors", "", "", NoLabels, QueryBody),
      QC("errors", "Error logs", "p", Labels1("env", "prod"), QueryBody),
      QC("errors", "", "p", Labels1("aggregation", "custom"), QueryBody),
      QC("errors", "Error logs", "",
         PutStr(Labels1("bucket.key", "fixed"), "query.name", "renamed"), QueryBody) }

SeqsUpTo(S, n) == UNION {[1..k -> S] : k \in 0..n}

ValueNode == Obj(<< <<"value", Num(1205)>> >>)
DocCountNode == Obj(<< <<"doc_count", Num(70)>> >>)

\* the result of a single-bucket aggregation (filter, global, missing): its
\* doc_count with a sub-aggregation next to it
FilterNode == Obj(<< <<"doc_count", Num(50)>>, <<"avg_latency", ValueNode>> >>)

\* aggregation nodes without buckets
Leafs ==
    { ValueNode, DocCountNode, FilterNode, Obj(<<>>), Num(7),
      Obj(<< <<"value", Null>> >>),
      Obj(<< <<"value", Num(25)>>, <<"doc_count", Num(30)>> >>) }

\* buckets of a buckets list nested in a bucket
InnerBuckets ==
    { Obj(<< <<"key", Str("host1")>>, <<"doc_count", Num(40)>>,
             <<"max_lat", Obj(<< <<"value", Num(9000)>> >>)>> >>),
      Obj(<< <<"max_lat", Obj(<< <<"value", Num(9000)>> >>)>> >>) }

\* the aggregations nested in a bucket
NestedNodes ==
    { ValueNode, DocCountNode, Obj(<<>>), Str("n/a") }
    \cup { Obj(<< <<"doc_count", Num(50)>>, <<"buckets", Arr(<<b>>)>> >>) : b \in InnerBuckets }

BucketKeys == { Str("ERROR"), Num(15), Num(25) }

\* the members of a top-level buckets list
OuterBuckets ==
    { Obj(<< <<"key", k>>, <<"doc_count", Num(100)>> >>) : k \in BucketKeys }
    \cup { Obj(<< <<"key", k>> >>) : k \in BucketKeys }
    \cup { Obj(<< <<"doc_count", Num(100)>> >>), Obj(<<>>), Num(7) }
    \cup { Obj(<< <<"key", Str("ERROR")>>, <<"doc_count", Num(100)>>,
                  <<"avg_latency", n>> >>) : n \in NestedNodes }
    \cup { Obj(<< <<"key", Num(15)>>, <<"key_as_string", Str("1.5")>>,
                  <<"doc_count", Str("many")>> >>),
           Obj(<< <<"avg_latency", ValueNode>>, <<"key", Str("WARN")>>,
                  <<"hosts", DocCountNode>>, <<"doc_count", Num(100)>> >>),
           Obj(<< <<"hosts", DocCountNode>>, <<"doc_count", Num(100)>>,
                  <<"avg_latency", ValueNode>>, <<"key", Str("WARN")>> >>) }

AggNames == { "levels", "latency", "hosts" }

\* the aggregations of a response: one bucketed aggregation, or several
\* aggregations without buckets in the order range visits them
AggregationMaps ==
    { Obj(<< <<"levels", Obj(<< <<"buckets", Arr(bs)>> >>)>> >>) :
         bs \in SeqsUpTo(OuterBuckets, MaxBuckets) }
    \cup { Obj(<< <<"levels", Obj(<< <<"doc_count", Num(60)>>, <<"buckets", Arr(bs)>> >>)>> >>) :
         bs \in SeqsUpTo(OuterBuckets, MaxBuckets) }
    \cup { Obj([i \in 1..Len(ns) |-> <<ns[i], ls[i]>>]) :
         <<ns, ls>> \in { p \in SeqsUpTo(AggNames, MaxAggs) \X SeqsUpTo(Leafs, MaxAggs) :
                            /\ Len(p[1]) = Len(p[2])
                            /\ \A i, j \in 1..Len(p[1]) : i # j => p[1][i] # p[1][j] } }

ShardsBody(total, successful, failed) ==
    Obj(<< <<"total", Num(Float(total))>>, <<"successful", Num(Float(successful))>>,
           <<"skipped", Num(0)>>, <<"failed", Num(Float(failed))>> >>)

HitsBody(value) ==
    Obj(<< <<"total", Obj(<< <<"value", Num(Float(value))>>, <<"relation", Str("eq")>> >>)>>,
           <<"hits", Arr(<<>>)>> >>)

\* a search response body with aggregations
BodyWith(aggregations) ==
    Obj(<< <<"took", Num(Float(12))>>, <<"timed_out", [bool |-> FALSE]>>,
           <<"_shards", ShardsBody(5, 4, 1)>>, <<"hits", HitsBody(42)>>,
           <<"aggregations", aggregations>> >>)

\* search response bodies without aggregations
PlainBodies ==
    { Obj(<< <<"took", Num(Float(12))>>, <<"_shards", ShardsBody(5, 4, 1)>>,
             <<"hits", HitsBody(42)>> >>),
      Obj(<< <<"took", Num(Float(3))>>, <<"_shards", ShardsBody(2, 2, 0)>>,
             <<"hits", HitsBody(10000)>>, <<"aggregations", Null>> >>),
      Obj(<< <<"hits", HitsBody(7)>> >>) }

\* bodies json.Unmarshal rejects
BadBodies ==
    { Malformed, Arr(<<>>),
      Obj(<< <<"took", Str("12")>> >>),
      Obj(<< <<"took", Num(125)>> >>),
      Obj(<< <<"took", Num(10)>>, <<"hits", Obj(<< <<"total", Num(420)>> >>)>> >>) }

Reply(status, raw, val, complete) ==
    [kind |-> "reply", status |-> status, raw |-> raw, val |-> val, complete |-> complete]

ErrorJSON == Obj(<< <<"error", Str("Internal server error")>> >>)

\* the replies that are not a complete 200 with a well-formed body
OtherOutcomes ==
    { [kind |-> "refused"], [kind |-> "hang"] }
    \cup { Reply(st, "{error}", ErrorJSON, TRUE) : st \in {500, 503, 404} }
    \cup { Reply(st, "{search response}", CHOOSE b \in PlainBodies : Has(b, "took"), c) :
             st \in {201, 204}, c \in BOOLEAN }
    \cup { Reply(200, "{search response", CHOOSE b \in PlainBodies : Has(b, "took"), FALSE),
           Reply(500, "{err", ErrorJSON, FALSE) }
    \cup { Reply(200, "not a search response", b, TRUE) : b \in BadBodies }

FlattenBackends ==
    { Reply(200, "{search response}", BodyWith(a), TRUE) : a \in AggregationMaps }
    \cup { Reply(200, "{search response}", b, TRUE) : b \in PlainBodies }
    \cup OtherOutcomes

NoCall == [op |-> "none"]
NoCycle == [phase |-> "none"]
NoRequest == [none |-> TRUE]

\* a validated configuration for calls that do not depend on it
QC1 == QC("errors", "Error logs", "", Labels1("env", "prod"), QueryBody)
QC2 == QC("all", "", "docs", NoLabels, MatchAll)

BaseConfig ==
    [Mode |-> "direct", Endpoint |-> "https://localhost:9200", ProxyEndpoint |-> "",
     Username |-> "", Password |-> "", Queries |-> <<QC1, QC2>>,
     IndexPattern |-> "logs-*", TimeField |-> "@timestamp",
     LookbackPeriod |-> 5 * Minute, Timeout |-> 30 * Second,
     CollectionInterval |-> 60 * Second, InitialDelay |-> 0]

-----------------------------------------------------------------------------
(* One call of executeAndRecordQuery on every input *)

FlattenInit ==
    /\ fpc = "call"
    /\ fqc \in FlattenQueryConfigs
    /\ fbackend \in FlattenBackends
    /\ fres = [err |-> NoError, metrics |-> <<>>]
    \* the other parts rest
    /\ cpc = "rest"
    /\ ccfg = BaseConfig
    /\ cerr = NoError
    /\ ccall = NoCall
    /\ config = BaseConfig
    /\ rcv = "rest"
    /\ ping = "none"
    /\ loop = "none"
    /\ cancelled = FALSE
    /\ tick = FALSE
    /\ ticks = 0
    /\ dropped = 0
    /\ ncycles = 0
    /\ cycle = NoCycle

FlattenCall ==
    /\ fpc = "call"
    /\ fpc' = "done"
    /\ fres' = executeAndRecordQuery(BaseConfig, fqc, FALSE, fbackend, NowBase)
    /\ UNCHANGED <<fqc, fbackend>>
    /\ UNCHANGED <<cvars, mvars>>


-----------------------------------------------------------------------------
(* newScraperInstance on every configuration, and the calls of its client *)

MaxClock == 2       \* clock readings after NowBase

Clock == NowBase..(NowBase + MaxClock)

QCNoName == QC("", "", "", NoLabels, MatchAll)
QCNilBody == QC("nobody", "", "", NoLabels, Null)
QCEmptyBody == QC("empty", "", "", NoLabels, Obj(<<>>))
QCSameName == QC("errors", "", "again", NoLabels, MatchAll)

RawConfigs ==
    { [BaseConfig EXCEPT !.Mode = mode, !.Endpoint = endpoint,
                         !.ProxyEndpoint = proxy, !.Username = cred[1],
                         !.Password = cred[2], !.Queries = queries,
                         !.IndexPattern = index, !.TimeField = timeField,
                         !.LookbackPeriod = lookback] :
        mode \in {"", "direct", "proxy", "oauth"},
        endpoint \in {"", "https://localhost:9200"},
        proxy \in {"", "http://localhost:8080"},
        cred \in {<<"", "">>, <<"admin", "secret">>, <<"admin", "">>},
        queries \in {<<>>, <<QC1>>, <<QC1, QC2>>, <<QC1, QCNoName>>, <<QCNilBody>>,
                     <<QCEmptyBody, QC1>>, <<QC1, QCSameName>>},
        index \in {"", "logs-*"},
        timeField \in {"", "ts"},
        lookback \in {0, 10 * Second, 3, 1, -(5 * Minute)} }

ClientBackends ==
    OtherOutcomes \cup { Reply(200, "{search response}", b, TRUE) : b \in PlainBodies }

ClientInit ==
    /\ cpc = "new"
    /\ ccfg \in RawConfigs
    /\ cerr = NoError
    /\ ccall = NoCall
    \* the other parts rest
    /\ fpc = "rest"
    /\ fqc = QC1
    /\ fbackend = [kind |-> "refused"]
    /\ fres = [err |-> NoError, metrics |-> <<>>]
    /\ config = BaseConfig
    /\ rcv = "rest"
    /\ ping = "none"
    /\ loop = "none"
    /\ cancelled = FALSE
    /\ tick = FALSE
    /\ ticks = 0
    /\ dropped = 0
    /\ ncycles = 0
    /\ cycle = NoCycle

\* newScraperInstance: Validate, then NewOpenSearchClient
NewScraperInstance ==
    /\ cpc = "new"
    /\ LET v == Validate(ccfg)
       IN  /\ cerr' = v.err
           /\ ccfg' = v.cfg
           /\ cpc' = IF v.err = NoError THEN "ready" ELSE "rejected"
    /\ UNCHANGED ccall
    /\ UNCHANGED <<fvars, mvars>>

\* client.ExecuteQuery(ctx, cfg.Queries[i])
ClientExecuteQuery ==
    /\ cpc = "ready"
    /\ \E i \in 1..Len(ccfg.Queries), now \in Clock, ctxDone \in BOOLEAN,
          backend \in ClientBackends :
          LET queryConfig == ccfg.Queries[i]
              request == searchHTTPRequest(ccfg, queryConfig, now)
          IN  /\ ccall' = [op |-> "ExecuteQuery", query |-> i, now |-> now,
                           ctxDone |-> ctxDone, backend |-> backend,
                           request |-> request,
                           issued |-> requestIssued(ctxDone),
                           result |-> ExecuteQuery(ccfg, queryConfig, ctxDone, backend)]
              /\ ccfg' = [ccfg EXCEPT !.Queries[i] =
                                  queryAfterExecute(queryConfig, request.body)]
    /\ cpc' = "called"
    /\ UNCHANGED cerr
    /\ UNCHANGED <<fvars, mvars>>

\* client.Ping(ctx)
ClientPing ==
    /\ cpc = "ready"
    /\ \E ctxDone \in BOOLEAN, backend \in ClientBackends :
          ccall' = [op |-> "Ping", ctxDone |-> ctxDone, backend |-> backend,
                    request |-> pingHTTPRequest(ccfg),
                    issued |-> requestIssued(ctxDone),
                    result |-> Ping(ccfg, ctxDone, backend)]
    /\ cpc' = "called"
    /\ UNCHANGED <<ccfg, cerr>>
    /\ UNCHANGED <<fvars, mvars>>


-----------------------------------------------------------------------------
(* metricsReceiver: Start, Shutdown, collectionLoop, collect, scrape *)

MaxQueries == 2     \* configured queries
MaxTicks == 2       \* ticker periods

\* the i-th configured query
QueryN(i) ==
    QC("q" \o ToString(i),
       IF i % 2 = 1 THEN "Error logs" ELSE "",
       IF i % 2 = 0 THEN "docs" ELSE "",
       IF i % 2 = 1 THEN Labels1("env", "prod") ELSE NoLabels,
       IF i % 2 = 1 THEN QueryBody ELSE MatchAll)

\* the configurations of the receiver: one to MaxQueries queries without an
\* initial delay, and one query after an initial delay
MainConfigs ==
    { Validate([BaseConfig EXCEPT !.Queries = [i \in 1..n |-> QueryN(i)],
                                  !.InitialDelay = 0]).cfg : n \in 1..MaxQueries }
    \cup { Validate([BaseConfig EXCEPT !.Queries = <<QueryN(1)>>,
                                       !.InitialDelay = Second]).cfg }

\* the response of the documentation's example: one bucket ERROR with
\* doc_count 10 and avg_latency 120.5
ExampleAggregations ==
    Obj(<< <<"levels",
             Obj(<< <<"buckets",
                      Arr(<< Obj(<< <<"key", Str("ERROR")>>,
                                    <<"doc_count", Num(100)>>,
                                    <<"avg_latency", ValueNode>> >>) >>)>> >>)>> >>)

\* a response with two buckets that are not in the order of their keys, of
\* their counts or of their values: WARN (3, 80.0), ERROR (10, 120.5)
TwoBucketAggregations ==
    Obj(<< <<"levels",
             Obj(<< <<"buckets",
                      Arr(<< Obj(<< <<"key", Str("WARN")>>,
                                    <<"doc_count", Num(30)>>,
                                    <<"avg_latency", Obj(<< <<"value", Num(800)>> >>)>> >>),
                             Obj(<< <<"key", Str("ERROR")>>,
                                    <<"doc_count", Num(100)>>,
                                    <<"avg_latency", ValueNode>> >>) >>)>> >>)>> >>)

MainBackends ==
    { Reply(200, "{search response}", BodyWith(ExampleAggregations), TRUE),
      Reply(200, "{search response}", BodyWith(TwoBucketAggregations), TRUE),
      Reply(500, "{error}", ErrorJSON, TRUE),
      [kind |-> "hang"] }

\* time.Now(): the clock advances one collection interval per cycle
Now == NowBase + ncycles * config.CollectionInterval

NumQueries == Len(config.Queries)

\* a context of collect that is not derived from the loop's context
timeoutCtxDone_Detached == cycle.expired

\* the context collect derives is done: past its deadline, or the parent
\* context of Start has been cancelled
timeoutCtxDone == cycle.expired \/ cancelled

Init ==
    /\ config \in MainConfigs
    /\ rcv = "created"
    /\ ping = "none"
    /\ loop = "none"
    /\ cancelled = FALSE
    /\ tick = FALSE
    /\ ticks = 0
    /\ dropped = 0
    /\ ncycles = 0
    /\ cycle = NoCycle
    \* the other parts rest
    /\ fpc = "rest"
    /\ fqc = QC1
    /\ fbackend = [kind |-> "refused"]
    /\ fres = [err |-> NoError, metrics |-> <<>>]
    /\ cpc = "rest"
    /\ ccfg = BaseConfig
    /\ cerr = NoError
    /\ ccall = NoCall

\* a scraper.start that hands the error of Ping to its caller
scraperStart_Fatal(pingErr) == pingErr

\* what scraper.start returns, given what Ping returned: the error is
\* logged as a warning and nil is returned
scraperStart(pingErr) == NoError

\* Start: scraper.start pings; if it returns an error Start returns it and
\* nothing is spawned, otherwise the context is made and the loop spawned
Start ==
    /\ rcv = "created"
    /\ \E backend \in MainBackends :
          LET pingErr == Ping(config, FALSE, backend)
              err == scraperStart(pingErr)
          IN  /\ ping' = IF pingErr = NoError THEN "ok" ELSE "failed"
              /\ rcv' = IF err = NoError THEN "started" ELSE "failed"
              /\ loop' = IF err # NoError THEN "none"
                         ELSE IF config.InitialDelay > 0 THEN "delay" ELSE "first"
    /\ UNCHANGED <<config, cancelled, tick, ticks, ncycles, cycle, dropped>>
    /\ UNCHANGED <<fvars, cvars>>

\* Shutdown: cancels the context of the loop, if Start made one
Shutdown ==
    /\ rcv \in {"created", "started"}
    /\ rcv' = "shutdown"
    /\ cancelled' = (rcv = "started")
    /\ UNCHANGED <<config, ping, loop, tick, ticks, ncycles, cycle, dropped>>
    /\ UNCHANGED <<fvars, cvars>>

\* a select that still takes the timer's case after ctx.Done() was closed
LoopDelayElapsed_Racy ==
    /\ loop = "delay"
    /\ loop' = "first"
    /\ UNCHANGED <<config, rcv, ping, cancelled, tick, ticks, ncycles, cycle, dropped>>
    /\ UNCHANGED <<fvars, cvars>>

\* the initial delay: time.After fires.  The timer starts when the select
\* is entered and the loop waits in the select, so the case that becomes
\* ready first is taken: the timer's only while ctx.Done() is not closed
LoopDelayElapsed ==
    /\ loop = "delay"
    /\ ~cancelled
    /\ loop' = "first"
    /\ UNCHANGED <<config, rcv, ping, cancelled, tick, ticks, ncycles, cycle, dropped>>
    /\ UNCHANGED <<fvars, cvars>>

\* the initial delay: ctx.Done() is received
LoopDelayCancelled ==
    /\ loop = "delay"
    /\ cancelled
    /\ loop' = "exited"
    /\ UNCHANGED <<config, rcv, ping, cancelled, tick, ticks, ncycles, cycle, dropped>>
    /\ UNCHANGED <<fvars, cvars>>

\* a period of the ticker ends: a tick is sent unless one waits.  The loop
\* makes the ticker right before its first collect, so the periods run
\* from there
TickerFires ==
    /\ loop \in {"collect", "select"}
    /\ ticks < MaxTicks
    /\ ticks' = ticks + 1
    /\ tick' = TRUE
    /\ dropped' = IF tick THEN dropped + 1 ELSE dropped
    /\ UNCHANGED <<config, rcv, ping, loop, cancelled, ncycles, cycle>>
    /\ UNCHANGED <<fvars, cvars>>

\* how the call of collect before this one ended: whether all its queries
\* failed, and what the consumer returned
lastOutcome ==
    IF cycle.phase = "none" THEN [none |-> TRUE]
    ELSE [allFailed |-> \A i \in 1..Len(cycle.errs) : cycle.errs[i] # NoError,
          sink |-> cycle.sink]

\* collect is entered: the timeout context is derived and scrape starts
beginCollect ==
    /\ loop' = "collect"
    /\ ncycles' = ncycles + 1
    /\ cycle' = [phase |-> "scrape", n |-> ncycles + 1, timestamp |-> Now,
                 prev |-> lastOutcome, scrapeErr |-> NoError,
                 qi |-> 1, expired |-> FALSE, elapsed |-> FALSE,
                 late |-> cancelled, stopped |-> cancelled, inflight |-> FALSE,
                 backends |-> <<>>, errs |-> <<>>, requests |-> <<>>,
                 body |-> NoRequest, batch |-> <<>>, sink |-> "none"]

\* a loop whose first collect waits for the first tick
LoopFirstCollect_WaitsTick ==
    /\ loop = "first"
    /\ tick
    /\ tick' = FALSE
    /\ beginCollect
    /\ UNCHANGED <<config, rcv, ping, cancelled, ticks, dropped>>
    /\ UNCHANGED <<fvars, cvars>>

\* "Collect immediately on start"
LoopFirstCollect ==
    /\ loop = "first"
    /\ beginCollect
    /\ UNCHANGED <<config, rcv, ping, cancelled, tick, ticks, dropped>>
    /\ UNCHANGED <<fvars, cvars>>

\* a loop that starts the cycle of a tick while the cycle before it runs
LoopTick_Concurrent ==
    /\ loop \in {"select", "collect"}
    /\ tick
    /\ tick' = FALSE
    /\ beginCollect
    /\ UNCHANGED <<config, rcv, ping, cancelled, ticks, dropped>>
    /\ UNCHANGED <<fvars, cvars>>

\* a loop whose ticker hands over every tick that fired: a missed tick is
\* queued and starts a cycle of its own
LoopTick_Replays ==
    /\ loop = "select"
    /\ tick
    /\ tick' = (dropped > 0)
    /\ dropped' = IF dropped > 0 THEN dropped - 1 ELSE dropped
    /\ beginCollect
    /\ UNCHANGED <<config, rcv, ping, cancelled, ticks>>
    /\ UNCHANGED <<fvars, cvars>>

\* select: a tick is received from ticker.C
LoopTick ==
    /\ loop = "select"
    /\ tick
    /\ tick' = FALSE
    /\ beginCollect
    /\ UNCHANGED <<config, rcv, ping, cancelled, ticks, dropped>>
    /\ UNCHANGED <<fvars, cvars>>

\* a select without the case of ctx.Done(): the loop goes on waiting
LoopDone_Ignored ==
    /\ loop = "select"
    /\ cancelled
    /\ UNCHANGED vars

\* select: ctx.Done() is received; the deferred ticker.Stop runs
LoopDone ==
    /\ loop = "select"
    /\ cancelled
    /\ loop' = "exited"
    /\ UNCHANGED <<config, rcv, ping, cancelled, tick, ticks, ncycles, cycle, dropped>>
    /\ UNCHANGED <<fvars, cvars>>

\* the deadline of the cycle's context passes: while a request waits for
\* its reply, or (elapsed) while calls that do get their replies take their
\* time
DeadlineExpires ==
    /\ loop = "collect"
    /\ ~cycle.expired
    /\ cycle' = [cycle EXCEPT !.expired = TRUE,
                              !.elapsed = @ \/ ~cycle.inflight]
    /\ UNCHANGED <<config, rcv, ping, loop, cancelled, tick, ticks, ncycles, dropped>>
    /\ UNCHANGED <<fvars, cvars>>

\* a loop that runs a failed query again
nextQuery_RetryFailed(qi, err) == IF err # NoError THEN qi ELSE qi + 1

\* the range loop of scrape goes on to the next query, whatever the error
nextQuery(qi, err) == qi + 1

\* one turn of the loop of scrape: executeAndRecordQuery of the next query.
\* A request the backend never answers stays in flight until the context
\* ends (ScrapeQueryAborted); every other call returns here.
ScrapeQuery ==
    /\ loop = "collect"
    /\ cycle.phase = "scrape"
    /\ cycle.qi <= NumQueries
    /\ ~cycle.inflight
    /\ \E backend \in MainBackends :
          LET queryConfig == config.Queries[cycle.qi]
              ctxDone == timeoutCtxDone
              request == searchHTTPRequest(config, queryConfig, Now)
              r == executeAndRecordQuery(config, queryConfig, ctxDone, backend,
                                         cycle.timestamp)
          IN  /\ cycle' = IF ~ctxDone /\ backend.kind = "hang"
                          THEN [cycle EXCEPT
                                  !.inflight = TRUE,
                                  !.backends = Append(@, backend),
                                  !.requests = Append(@, requestIssued(ctxDone)),
                                  !.body = request.body]
                          ELSE [cycle EXCEPT
                                  !.qi = nextQuery(@, r.err),
                                  !.stopped = @ \/ cancelled,
                                  !.backends = Append(@, backend),
                                  !.errs = Append(@, r.err),
                                  !.requests = Append(@, requestIssued(ctxDone)),
                                  !.body = request.body,
                                  !.batch = @ \o r.metrics]
              /\ config' = [config EXCEPT !.Queries[cycle.qi] =
                                  queryAfterExecute(queryConfig, request.body)]
    /\ UNCHANGED <<rcv, ping, loop, cancelled, tick, ticks, ncycles, dropped>>
    /\ UNCHANGED <<fvars, cvars>>

\* the context ends while a request is in flight: httpClient.Do returns the
\* context's error and executeAndRecordQuery returns it wrapped
ScrapeQueryAborted ==
    /\ loop = "collect"
    /\ cycle.phase = "scrape"
    /\ cycle.inflight
    /\ timeoutCtxDone
    /\ LET r == executeAndRecordQuery(config, config.Queries[cycle.qi], FALSE,
                                      cycle.backends[cycle.qi], cycle.timestamp)
       IN  cycle' = [cycle EXCEPT
                       !.inflight = FALSE,
                       !.qi = nextQuery(@, r.err),
                       !.stopped = @ \/ cancelled,
                       !.errs = Append(@, r.err),
                       !.batch = @ \o r.metrics]
    /\ UNCHANGED <<config, rcv, ping, loop, cancelled, tick, ticks, ncycles, dropped>>
    /\ UNCHANGED <<fvars, cvars>>

\* a scrape that returns the first error of its queries
scrapeResult_FirstError(batch, errs) ==
    LET failed == {i \in 1..Len(errs) : errs[i] # NoError}
    IN  IF failed = {} THEN [metrics |-> batch, err |-> NoError]
        ELSE [metrics |-> batch,
              err |-> errs[CHOOSE i \in failed : \A j \in failed : i <= j]]

\* what scrape returns after its loop: the metrics, and nil
scrapeResult(batch, errs) == [metrics |-> batch, err |-> NoError]

\* scrape returns; on an error collect logs it and returns, otherwise it
\* hands the metrics to the consumer and only logs what the consumer returns
CollectConsume ==
    /\ loop = "collect"
    /\ cycle.phase = "scrape"
    /\ cycle.qi > NumQueries
    /\ LET r == scrapeResult(cycle.batch, cycle.errs)
       IN  IF r.err # NoError
           THEN cycle' = [cycle EXCEPT !.phase = "done", !.scrapeErr = r.err]
           ELSE \E s \in {"consumed", "error"} :
                   cycle' = [cycle EXCEPT !.phase = "done", !.sink = s]
    /\ loop' = "select"
    /\ UNCHANGED <<config, rcv, ping, cancelled, tick, ticks, ncycles, dropped>>
    /\ UNCHANGED <<fvars, cvars>>

-----------------------------------------------------------------------------
(* The specifications: the receiver, the client, executeAndRecordQuery *)

Next ==
    \/ Start
    \/ Shutdown
    \/ LoopDelayElapsed
    \/ LoopDelayCancelled
    \/ TickerFires
    \/ LoopFirstCollect
    \/ LoopTick
    \/ LoopDone
    \/ DeadlineExpires
    \/ ScrapeQuery
    \/ ScrapeQueryAborted
    \/ CollectConsume

Spec == Init /\ [][Next]_vars

\* the steps of the loop's goroutine that need no tick and no timer
LoopStep ==
    \/ LoopDelayCancelled
    \/ LoopFirstCollect
    \/ LoopDone
    \/ ScrapeQuery
    \/ ScrapeQueryAborted
    \/ CollectConsume

\* the loop's goroutine is scheduled: while it can take a step it takes
\* one (a select with a ready case returns, a call that has its reply or
\* whose context has ended returns)
LoopFairness == WF_vars(LoopStep)

SpecLive == Init /\ [][Next]_vars /\ LoopFairness

ClientNext ==
    \/ NewScraperInstance
    \/ ClientExecuteQuery
    \/ ClientPing

SpecClient == ClientInit /\ [][ClientNext]_vars

FlattenNext == FlattenCall

SpecFlatten == FlattenInit /\ [][FlattenNext]_vars

-----------------------------------------------------------------------------
(* Properties of one call of executeAndRecordQuery (SpecFlatten) *)

FlattenDone == fpc = "done"
FlattenOK == fpc = "done" /\ fres.err = NoError
Metrics == {fres.metrics[i] : i \in 1..Len(fres.metrics)}

\* the number a reply's body carries at a path of field names, 0 if none
RECURSIVE BodyNumber(_, _)
BodyNumber(val, path) ==
    IF Len(path) = 0 THEN (IF IsNum(val) THEN val.num ELSE 0)
    ELSE IF IsObj(val) THEN BodyNumber(Get(val, Head(path)), Tail(path))
    ELSE 0

\* the prefix the documentation gives a query's metrics
DocPrefix == IF fqc.MetricName = "" THEN "opensearch.query." \o fqc.Name
             ELSE fqc.MetricName

\* the five summary measurements: name suffix and the body field they report
SummaryFields ==
    { <<".count", <<"hits", "total", "value">> >>,
      <<".took_ms", <<"took">> >>,
      <<".shards.total", <<"_shards", "total">> >>,
      <<".shards.successful", <<"_shards", "successful">> >>,
      <<".shards.failed", <<"_shards", "failed">> >> }

\* C3: a successfully executed query contributes exactly five summary
\* measurements, named <prefix>.count, .took_ms, .shards.total,
\* .shards.successful and .shards.failed, whatever its aggregations; the
\* prefix is metric_name, or opensearch.query.<name> when that is empty, and
\* the values are the response's hits.total.value, took and shard counts.
C3_FiveSummaryMeasurements ==
    FlattenOK =>
        /\ \A f \in SummaryFields :
              /\ Cardinality({i \in 1..Len(fres.metrics) :
                                fres.metrics[i].name = DocPrefix \o f[1]}) = 1
              /\ \E m \in Metrics :
                    /\ m.name = DocPrefix \o f[1]
                    /\ m.value = BodyNumber(fbackend.val, f[2])
        /\ Cardinality({i \in 1..Len(fres.metrics) :
                          \E f \in SummaryFields :
                              fres.metrics[i].name = DocPrefix \o f[1]}) = 5

C3_Witness ==
    /\ FlattenOK
    /\ fqc.MetricName = ""
    /\ Len(fres.metrics) > 5
    /\ \E m \in Metrics : m.name = "opensearch.query.errors.took_ms" /\ m.value = 120

\* the fields of a bucket that are walked as nested aggregations
NestedFields(bucket) ==
    { bucket.obj[j] : j \in { j \in 1..Len(bucket.obj) :
                                bucket.obj[j][1] \notin {"key", "doc_count", "key_as_string"} } }

\* every bucket the walk of aggregation a (value node) with base name b meets,
\* at any depth, with the base name and aggregation it is met under
RECURSIVE WalkedBuckets(_, _, _)
WalkedBuckets(b, a, node) ==
    IF ~IsObj(node) THEN {}
    ELSE IF ~IsArr(Get(node, "buckets")) THEN {}
    ELSE LET bs == Get(node, "buckets").arr
         IN  UNION { IF ~IsObj(bs[i]) THEN {}
                     ELSE LET k == bucketKey(bs[i], i - 1)
                          IN  {[base |-> b, agg |-> a, key |-> k, bucket |-> bs[i]]}
                              \cup UNION { WalkedBuckets(b \o "." \o k, f[1], f[2]) :
                                             f \in NestedFields(bs[i]) }
                   : i \in 1..Len(bs) }

\* the buckets of the response of the call
ResponseBuckets ==
    LET aggs == Get(fbackend.val, "aggregations")
    IN  IF ~IsObj(aggs) THEN {}
        ELSE UNION { WalkedBuckets(DocPrefix, aggs.obj[j][1], aggs.obj[j][2]) :
                       j \in 1..Len(aggs.obj) }

\* the scalars nested directly in bucket occurrence o are named b.k.agg.n
NestedScalarsNamed(o) ==
    \A f \in NestedFields(o.bucket) :
        (IsObj(f[2]) /\ IsNum(Get(f[2], "value"))) =>
            \E m \in Metrics :
                /\ m.name = o.base \o "." \o o.key \o ".agg." \o f[1]
                /\ m.value = Get(f[2], "value").num

\* the value a label of the bucket step has once the custom labels are put
Shadowed(k, v) == IF k \in DOMAIN fqc.Labels THEN fqc.Labels[k] ELSE v

C5_EveryMeasurementLabelled ==
    FlattenOK =>
        \A m \in Metrics :
            /\ "query.name" \in DOMAIN m.attrs
            /\ fqc.Description # "" => "query.description" \in DOMAIN m.attrs
            /\ DOMAIN fqc.Labels \subseteq DOMAIN m.attrs

NumericField(o, k) == IF IsNum(Get(o, k)) THEN 1 ELSE 0

RECURSIVE Leaves(_)
RECURSIVE LeavesOfFields(_, _, _)
RECURSIVE LeavesOfBuckets(_, _)

\* the leaves in the fields of the object o from field j on, the fields
\* named in skip left aside
LeavesOfFields(o, j, skip) ==
    IF j > Len(o.obj) THEN 0
    ELSE (IF o.obj[j][1] \in skip THEN 0 ELSE Leaves(o.obj[j][2]))
         + LeavesOfFields(o, j + 1, skip)

\* the leaves of the buckets of a list from bucket j on: the doc_count of
\* each bucket and the leaves of the aggregations nested in it
LeavesOfBuckets(bs, j) ==
    IF j > Len(bs) THEN 0
    ELSE (IF IsObj(bs[j])
          THEN NumericField(bs[j], "doc_count")
               + LeavesOfFields(bs[j], 1, {"key", "doc_count", "key_as_string"})
          ELSE 0)
         + LeavesOfBuckets(bs, j + 1)

\* the leaves of the aggregation tree under a node: its numeric value, its
\* doc_count, its buckets and the sub-aggregations it holds, at every level
Leaves(node) ==
    IF ~IsObj(node) THEN 0
    ELSE NumericField(node, "value") + NumericField(node, "doc_count")
         + (IF IsArr(Get(node, "buckets"))
            THEN LeavesOfBuckets(Get(node, "buckets").arr, 1) ELSE 0)
         + LeavesOfFields(node, 1, {"value", "doc_count", "buckets"})

TreeLeaves ==
    LET aggs == Get(fbackend.val, "aggregations")
    IN  IF IsObj(aggs) THEN LeavesOfFields(aggs, 1, {}) ELSE 0

\* a complete reply with status 200 and a well-formed search response
GoodReply ==
    /\ fbackend.kind = "reply"
    /\ fbackend.status = 200
    /\ fbackend.complete
    /\ unmarshalOK(fbackend.val)

\* C20: for a successful response the number of measurements emitted for
\* the query is exactly 5 plus the number of leaves of the response's
\* aggregation tree, counted through every nesting level (one per node with
\* a numeric value, one per node doc_count, one per bucket doc_count); nodes
\* of empty or unrecognized shape add nothing and raise no error.
C20_LeafCount ==
    (fpc = "done" /\ GoodReply) =>
        /\ fres.err = NoError
        /\ Len(fres.metrics) = 5 + TreeLeaves

\* the aggregation nodes the walk visits: the aggregations of the response
\* and the aggregations nested in its buckets, with base name and name
ResponseNodes ==
    LET aggs == Get(fbackend.val, "aggregations")
    IN  (IF ~IsObj(aggs) THEN {}
         ELSE {[base |-> DocPrefix, agg |-> aggs.obj[j][1], node |-> aggs.obj[j][2]] :
                  j \in 1..Len(aggs.obj)})
        \cup UNION { {[base |-> o.base \o "." \o o.key, agg |-> f[1], node |-> f[2]] :
                        f \in NestedFields(o.bucket)} : o \in ResponseBuckets }

\* the measurements named <base>.agg.<name>.doc_count for the node n
NodeDocCounts(n) ==
    {m \in Metrics : /\ m.name = n.base \o ".agg." \o n.agg \o ".doc_count"
                      /\ m.unit = "documents"}

HasDocCount(node) == IsObj(node) /\ IsNum(Get(node, "doc_count"))
HasBuckets(node) == IsObj(node) /\ IsArr(Get(node, "buckets"))

\* C21 as stated: a node emits <base>.agg.<name>.doc_count only when it has
\* a doc_count and no buckets; a node with both emits only the per-bucket
\* measurements.
C21_Original ==
    FlattenOK =>
        \A n \in ResponseNodes :
            NodeDocCounts(n) # {} =>
                \E o \in ResponseNodes :
                    /\ o.base = n.base /\ o.agg = n.agg
                    /\ HasDocCount(o.node) /\ ~HasBuckets(o.node)

\* C21 (amended): a node emits <base>.agg.<name>.doc_count (unit
\* "documents", the doc_count as value) exactly when it has a numeric
\* doc_count, with or without buckets; a node that has both a doc_count and
\* a buckets list emits its own doc_count and the per-bucket measurements.
C21_DocCountWithBuckets ==
    FlattenOK =>
        \A n \in ResponseNodes :
            /\ HasDocCount(n.node) =>
                  \E m \in NodeDocCounts(n) : m.value = Get(n.node, "doc_count").num
            /\ NodeDocCounts(n) # {} =>
                  \E o \in ResponseNodes :
                      /\ o.base = n.base /\ o.agg = n.agg /\ HasDocCount(o.node)

C21_Witness ==
    /\ FlattenOK
    /\ fqc.MetricName = "p"
    /\ \E n \in ResponseNodes :
          /\ n.agg = "levels" /\ HasDocCount(n.node) /\ HasBuckets(n.node)
          /\ Len(Get(n.node, "buckets").arr) = 2
    /\ \E m \in Metrics : m.name = "p.agg.levels.doc_count" /\ m.value = 60
    /\ \E m \in Metrics : m.name = "p.agg.levels.bucket.doc_count"
    /\ \E n \in ResponseNodes :
          n.base = "p.ERROR" /\ HasDocCount(n.node) /\ HasBuckets(n.node)
    /\ \E m \in Metrics : m.name = "p.ERROR.agg.avg_latency.doc_count" /\ m.value = 50

\* every bucket the walk meets, as WalkedBuckets, with its zero-based
\* position in its buckets list
RECURSIVE IndexedBuckets(_, _, _)
IndexedBuckets(b, a, node) ==
    IF ~HasBuckets(node) THEN {}
    ELSE LET bs == Get(node, "buckets").arr
         IN  UNION { IF ~IsObj(bs[i]) THEN {}
                     ELSE LET k == bucketKey(bs[i], i - 1)
                          IN  {[base |-> b, agg |-> a, key |-> k, bucket |-> bs[i],
                                idx |-> i - 1]}
                              \cup UNION { IndexedBuckets(b \o "." \o k, f[1], f[2]) :
                                             f \in NestedFields(bs[i]) }
                   : i \in 1..Len(bs) }

ResponseIndexedBuckets ==
    LET aggs == Get(fbackend.val, "aggregations")
    IN  IF ~IsObj(aggs) THEN {}
        ELSE UNION { IndexedBuckets(DocPrefix, aggs.obj[j][1], aggs.obj[j][2]) :
                       j \in 1..Len(aggs.obj) }

\* whether k is the key the documentation gives the bucket at zero-based
\* position i: the string key itself, a numeric key as a whole number next
\* to it, bucket_<i> for a bucket without a key
IsDocKey(k, bucket, i) ==
    LET keyVal == Get(bucket, "key")
    IN  IF IsStr(keyVal) THEN k = keyVal.str
        ELSE IF IsNum(keyVal)
             THEN IF keyVal.num % 10 = 0 THEN k = ToString(keyVal.num \div 10)
                  ELSE k \in {ToString(keyVal.num \div 10), ToString(keyVal.num \div 10 + 1)}
        ELSE k = "bucket_" \o ToString(i)

\* the measurements of the doc_count of bucket occurrence o
BucketDocCounts(o) ==
    {m \in Metrics : /\ m.name = o.base \o ".agg." \o o.agg \o ".bucket.doc_count"
                      /\ m.value = Get(o.bucket, "doc_count").num}

C30_Distinguishable ==
    fpc = "done" =>
        \A i, j \in 1..Len(fres.metrics) :
            i # j => \/ fres.metrics[i].name # fres.metrics[j].name
                     \/ fres.metrics[i].attrs # fres.metrics[j].attrs

-----------------------------------------------------------------------------
(* Properties of the client (SpecClient) *)

Called == cpc = "called" /\ ccall.op = "ExecuteQuery"

\* the fields of a JSON object
Keys(o) == {o.obj[j][1] : j \in 1..Len(o.obj)}

\* whether v is {bool: {must: [q], filter: [{range: {f: {gte, lte}}}]}}
IsTimeWindowOf(v, q, f) ==
    /\ IsObj(v) /\ Keys(v) = {"bool"} /\ Len(v.obj) = 1
    /\ LET b == Get(v, "bool")
       IN  /\ IsObj(b) /\ Keys(b) = {"must", "filter"} /\ Len(b.obj) = 2
           /\ Get(b, "must") = Arr(<<q>>)
           /\ IsArr(Get(b, "filter")) /\ Len(Get(b, "filter").arr) = 1
           /\ LET c == Get(b, "filter").arr[1]
              IN  /\ IsObj(c) /\ Keys(c) = {"range"} /\ Len(c.obj) = 1
                  /\ LET r == Get(c, "range")
                     IN  /\ IsObj(r) /\ Keys(r) = {f} /\ Len(r.obj) = 1
                         /\ IsObj(Get(r, f))
                         /\ Keys(Get(r, f)) = {"gte", "lte"}
                         /\ Len(Get(r, f).obj) = 2

\* C7: for every query body Q and configured time field f, the query
\* ExecuteQuery sends is {bool: {must: [Q], filter: [{range: {f: {gte,
\* lte}}}]}}: must holds exactly Q, filter exactly one range clause on f with
\* gte and lte; this holds of every call under every accepted configuration.
C7_TimeWindowInjected ==
    Called =>
        /\ ccfg.TimeField # ""
        /\ ccall.request.body.Size = 10000
        /\ IsTimeWindowOf(ccall.request.body.Query,
                          ccfg.Queries[ccall.query].Query, ccfg.TimeField)

C7_Witness ==
    /\ Called
    /\ ccfg.TimeField = "ts"
    /\ ccall.query = 2
    /\ Get(ccall.request.body.Query, "bool") =
          Obj(<< <<"must", Arr(<<MatchAll>>)>>,
                 <<"filter", Arr(<<timeFilter(ccfg, ccall.now)>>)>> >>)

\* the bounds of the window of the last call, in seconds
WindowOf(call) ==
    LET r == Get(Get(Get(Get(call.request.body.Query, "bool"), "filter").arr[1],
                     "range"), ccfg.TimeField)
    IN  [gte |-> Get(r, "gte").rfc3339, lte |-> Get(r, "lte").rfc3339]

\* C8: under every configuration Validate accepts, the injected window has
\* gte < lte and lte - gte = lookback_period, lte being the now of the call.
C8_WindowMatchesLookback ==
    Called =>
        /\ WindowOf(ccall).gte < WindowOf(ccall).lte
        /\ (WindowOf(ccall).lte - WindowOf(ccall).gte) * Second = ccfg.LookbackPeriod

\* the backend answered the request of the last call with this status
Answered(call) == call.issued /\ call.backend.kind = "reply"
IsStatusFailure(call) == call.result.err.kind = ErrStatus

\* C10 as stated: ExecuteQuery fails with a status error exactly when the
\* backend answers the request with a status outside 2xx.
C10_Original ==
    Called =>
        (IsStatusFailure(ccall) <=>
            (Answered(ccall) /\ ccall.backend.status \notin 200..299))

\* C10 (amended): ExecuteQuery fails with a status error exactly when the
\* backend's reply has been read in full and its status is not 200; the
\* error's message carries the numeric status code and the raw body, and no
\* SearchResponse is returned with it.
C10_StatusError ==
    Called =>
        /\ IsStatusFailure(ccall) <=>
              (/\ Answered(ccall)
               /\ ccall.backend.complete
               /\ ccall.backend.status # 200)
        /\ IsStatusFailure(ccall) =>
              /\ ccall.result.err.code = ccall.backend.status
              /\ ccall.result.err.body = ccall.backend.raw
              /\ ccall.result.resp = NoResponse

C10_Witness ==
    /\ Called
    /\ Answered(ccall)
    /\ ccall.backend.status = 201
    /\ ccall.result.err = [kind |-> ErrStatus, code |-> 201, body |-> "{search response}"]
    /\ ccall.result.resp = NoResponse

Pinged == cpc = "called" /\ ccall.op = "Ping"

\* C11 as stated: Ping succeeds if and only if the health endpoint answers
\* with a 2xx status; any other status or a transport failure is an error.
C11_Original ==
    Pinged =>
        (ccall.result = NoError <=>
            (Answered(ccall) /\ ccall.backend.status \in 200..299))

\* C11 (amended): Ping succeeds if and only if the health endpoint answers
\* with status 200; any other status, 2xx or not, or a transport failure
\* makes it return an error.
C11_PingStatus ==
    Pinged =>
        /\ ccall.result = NoError <=>
              (Answered(ccall) /\ ccall.backend.status = 200)
        /\ ccall.request.method = "GET"
        /\ ccall.request.url = GetEndpoint(ccfg) \o "/_cluster/health"

C11_Witness ==
    /\ Pinged
    /\ Answered(ccall)
    /\ ccall.backend.status = 204
    /\ ccall.result = [kind |-> ErrPingStatus, code |-> 204]

Validated == cpc # "new"

\* the settings of a configuration that the documentation makes Validate
\* reject, each with the messages that name it
Offences(cfg) ==
    (IF cfg.Mode = "" THEN {"mode must be specified (direct or proxy)"} ELSE {})
    \cup (IF cfg.Mode \notin {"", "direct", "proxy"}
          THEN {"invalid mode '" \o cfg.Mode \o "': must be 'direct' or 'proxy'"}
          ELSE {})
    \cup (IF cfg.Mode = "direct" /\ cfg.Endpoint = ""
          THEN {"endpoint must be specified in direct mode"} ELSE {})
    \cup (IF cfg.Mode = "proxy" /\ cfg.ProxyEndpoint = ""
          THEN {"proxy_endpoint must be specified in proxy mode"} ELSE {})
    \cup (IF cfg.Queries = <<>> THEN {"at least one query must be configured"} ELSE {})
    \cup { "query[" \o ToString(i - 1) \o "]: name must be specified" :
             i \in {i \in 1..Len(cfg.Queries) : cfg.Queries[i].Name = ""} }
    \cup { "query[" \o ToString(i - 1) \o "] (" \o cfg.Queries[i].Name
              \o "): query body must be specified" :
             i \in {i \in 1..Len(cfg.Queries) :
                      cfg.Queries[i].Query \in {Null, Obj(<<>>)}} }
    \cup (IF cfg.IndexPattern = "" THEN {"index_pattern must be specified"} ELSE {})

\* C16: Validate returns an error if and only if the mode is empty or not
\* direct/proxy, the endpoint of the mode is empty, the query list is empty,
\* a query has no name or no body, or index_pattern is empty; the message
\* names an offending setting; and no client is made, nor any call issued,
\* from a configuration that fails Validate.
C16_ValidateRejects ==
    Validated =>
        /\ cerr # NoError <=> Offences(ccfg) # {}
        /\ cerr # NoError => cerr.kind \in Offences(ccfg)
        /\ cerr # NoError <=> cpc = "rejected"
        /\ cpc = "rejected" => ccall = NoCall

C16_Witness ==
    /\ cpc = "rejected"
    /\ ccfg.Mode = "direct"
    /\ ccfg.IndexPattern = ""
    /\ ccfg.Queries = <<QCEmptyBody, QC1>>
    /\ cerr = Err("query[0] (empty): query body must be specified")

\* C17: after Validate succeeds time_field is "@timestamp" if it was empty
\* and lookback_period is 5 minutes if it was zero; a non-empty time_field
\* and a non-zero lookback_period are left unchanged (as is every other
\* setting).
C17_Defaults ==
    [][(cpc = "new" /\ cpc' = "ready") =>
          /\ ccfg'.TimeField =
                (IF ccfg.TimeField = "" THEN "@timestamp" ELSE ccfg.TimeField)
          /\ ccfg'.LookbackPeriod =
                (IF ccfg.LookbackPeriod = 0 THEN 5 * 60 * Second
                 ELSE ccfg.LookbackPeriod)
          /\ [ccfg' EXCEPT !.TimeField = "", !.LookbackPeriod = 0] =
                [ccfg EXCEPT !.TimeField = "", !.LookbackPeriod = 0]]_vars

C17_Witness ==
    /\ cpc = "ready"
    /\ ccfg.TimeField = "@timestamp"
    /\ ccfg.LookbackPeriod = 5 * 60 * Second

Accepted == cpc \in {"ready", "called"}

\* C24: every configuration accepted by Validate has query names that are
\* non-empty and pairwise distinct, so no two configured queries share a
\* name (and hence a default metric prefix).
C24_NamesDistinct ==
    Accepted =>
        /\ \A i \in 1..Len(ccfg.Queries) : ccfg.Queries[i].Name # ""
        /\ \A i, j \in 1..Len(ccfg.Queries) :
              i # j => ccfg.Queries[i].Name # ccfg.Queries[j].Name

\* C25: every request, of a query and of the liveness check, targets
\* proxy_endpoint when mode is proxy and endpoint otherwise, and carries
\* basic-auth credentials (the configured ones) if and only if mode is
\* direct and both username and password are non-empty; credentials
\* configured in proxy mode are never sent.
C25_EndpointAndAuth ==
    cpc = "called" =>
        LET req == ccall.request
            target == IF ccfg.Mode = "proxy" THEN ccfg.ProxyEndpoint ELSE ccfg.Endpoint
            path == IF ccall.op = "Ping" THEN "/_cluster/health"
                    ELSE "/" \o ccfg.IndexPattern \o "/_search"
        IN  /\ req.url = target \o path
            /\ req.auth.set <=>
                  (ccfg.Mode = "direct" /\ ccfg.Username # "" /\ ccfg.Password # "")
            /\ req.auth.set =>
                  (req.auth.username = ccfg.Username /\ req.auth.password = ccfg.Password)
            /\ ccfg.Mode = "proxy" => req.auth = [set |-> FALSE]

C25_Witness ==
    /\ cpc = "called"
    /\ ccall.op = "Ping"
    /\ ccfg.Mode = "proxy"
    /\ ccfg.Endpoint = "https://localhost:9200"
    /\ ccfg.Username = "admin" /\ ccfg.Password = "secret"
    /\ ccall.request.url = "http://localhost:8080/_cluster/health"
    /\ ~ccall.request.auth.set
    /\ ccall.issued

-----------------------------------------------------------------------------
(* Properties of the receiver's cycles (Spec) *)

CycleDone == cycle.phase = "done"

\* the queries the running cycle has executed so far
Executed == IF cycle.phase = "none" THEN {} ELSE 1..Len(cycle.errs)

\* the measurements of the batch that derive from query i, in batch order
BatchOf(i) ==
    LET name == "q" \o ToString(i)
    IN  SelectSeq(cycle.batch, LAMBDA m : m.attrs["query.name"] = name)

\* what tells one measurement of a query from another: its name and, on a
\* bucket's doc_count, the bucket's key
Ident(m) ==
    <<m.name, IF "bucket.key" \in DOMAIN m.attrs THEN m.attrs["bucket.key"] ELSE "">>

NamesOf(i) == LET g == BatchOf(i) IN {Ident(g[k]) : k \in 1..Len(g)}

\* a backend that answers 200 with a well-formed search response
WouldSucceed(backend) ==
    /\ backend.kind = "reply"
    /\ backend.status = 200
    /\ backend.complete
    /\ backend.val # Malformed

\* the prefix the documentation gives the metrics of the i-th query
PrefixOf(i) == IF i % 2 = 0 THEN "docs" ELSE "opensearch.query.q" \o ToString(i)

\* the buckets of the aggregation levels in the reply to query i
LevelsBuckets(i) ==
    Get(Get(Get(cycle.backends[i].val, "aggregations"), "levels"), "buckets").arr

\* the complete set of query i for the reply it got: five summary
\* measurements and, for every bucket of levels, its doc_count and its
\* avg_latency
CompleteNames(i) ==
    LET prefix == PrefixOf(i)
        buckets == LevelsBuckets(i)
    IN  {<<prefix \o f[1], "">> : f \in SummaryFields}
        \cup UNION { { <<prefix \o ".agg.levels.bucket.doc_count",
                         Get(buckets[b], "key").str>>,
                       <<prefix \o "." \o Get(buckets[b], "key").str
                               \o ".agg.avg_latency", "">> } :
                     b \in 1..Len(buckets) }

\* C1: in a cycle in which a query has failed, every other query whose
\* backend call would succeed has its measurements in the cycle's batch
\* (cycles that Shutdown interrupts, or whose replies were slow enough to
\* pass the deadline on their own, are left aside).
C1_OthersStillContribute ==
    (CycleDone /\ ~cycle.stopped /\ ~cycle.elapsed) =>
        \A i \in Executed :
            cycle.errs[i] # NoError =>
                \A j \in Executed \ {i} :
                    WouldSucceed(cycle.backends[j]) => Len(BatchOf(j)) > 0

\* C2: for every query of every cycle the batch holds either nothing that
\* derives from it, when its execution failed, or its complete set: the five
\* summary measurements and all its aggregation measurements, once each.
C2_AllOrNothing ==
    \A i \in Executed :
        IF cycle.errs[i] # NoError
        THEN Len(BatchOf(i)) = 0
        ELSE LET complete == CompleteNames(i)
             IN  /\ NamesOf(i) = complete
                 /\ Len(BatchOf(i)) = Cardinality(complete)

C2_Witness ==
    /\ CycleDone
    /\ Len(cycle.errs) = 2
    /\ cycle.errs[1].kind = "query execution failed"
    /\ cycle.errs[1].cause.kind = ErrStatus
    /\ cycle.errs[2] = NoError
    /\ Len(BatchOf(1)) = 0
    /\ Len(cycle.batch) = 7
    /\ \E k \in 1..7 : /\ cycle.batch[k].name = "docs.ERROR.agg.avg_latency"
                       /\ cycle.batch[k].value = 1205

\* C9: executing a query never modifies QueryConfig.query: in every state
\* each configured query is the one loaded, and the request body a cycle has
\* built last wraps the loaded query of its turn once.
C9_QueryNotMutated ==
    /\ \A i \in 1..NumQueries : config.Queries[i] = QueryN(i)
    /\ (cycle.phase # "none" /\ Len(cycle.backends) > 0) =>
          IsTimeWindowOf(cycle.body.Query, QueryN(Len(cycle.backends)).Query,
                         config.TimeField)

C9_Witness ==
    /\ CycleDone
    /\ cycle.n = 2
    /\ \A i \in Executed : cycle.requests[i]
    /\ Len(cycle.requests) = 2
    /\ Get(Get(cycle.body.Query, "bool"), "must") = Arr(<<MatchAll>>)

\* C12: a failed liveness check at startup is never fatal: whatever Ping
\* returned, Start has returned no error and the collection loop has been
\* started (and its cycles run queries as after a successful Ping).
C12_PingFailureNotFatal ==
    ping # "none" => (rcv \in {"started", "shutdown"} /\ loop # "none")

C12_Witness ==
    /\ ping = "failed"
    /\ CycleDone
    /\ cycle.n = 2
    /\ cycle.errs[1] = NoError
    /\ Len(BatchOf(1)) = 7

\* the loop has received every tick the ticker holds for it
TicksReceived == loop \in {"collect", "select"} /\ ~tick

\* C13 as stated: with initial_delay = 0 and no stop signal, after k ticks of
\* the timer exactly k+1 cycles have been started.
C13_Original ==
    (config.InitialDelay = 0 /\ ~cancelled /\ TicksReceived) =>
        ncycles = ticks + 1

\* C13 (amended): with initial_delay = 0 the first cycle starts on Start
\* without a tick, and with no stop signal, once the loop has received the
\* ticks of k periods, the cycles started are k+1 less the ticks the timer
\* dropped because an earlier tick was still waiting (exactly k+1 if none).
C13_CyclesPerTick ==
    /\ (config.InitialDelay = 0 /\ rcv = "started") => loop # "delay"
    /\ loop = "first" => ENABLED LoopFirstCollect
    /\ (config.InitialDelay = 0 /\ ~cancelled /\ TicksReceived) =>
          /\ ncycles = ticks - dropped + 1
          /\ dropped = 0 => ncycles = ticks + 1

C13_Witness ==
    /\ config.InitialDelay = 0
    /\ ~cancelled
    /\ TicksReceived
    /\ ticks = 2
    /\ dropped = 0
    /\ ncycles = 3

\* C14: after the stop signal (Shutdown) has been issued no new scrape cycle
\* is started, neither by a tick that is pending nor as the first immediate
\* cycle of a loop that has not run it yet.
C14_NoCycleAfterStop == [][cancelled => ncycles' = ncycles]_vars

\* a step in which a query of the running cycle returns while the stop
\* signal has been given and the cycle's deadline has not passed
ReturnsUnderStop ==
    /\ cycle.phase = "scrape"
    /\ cancelled
    /\ ~cycle.expired
    /\ cycle'.n = cycle.n
    /\ Len(cycle'.errs) = Len(cycle.errs) + 1

AllFailed == \A i \in 1..Len(cycle.errs) : cycle.errs[i] # NoError

\* C18: no per-query error leaves a scrape cycle: scrape returns its batch
\* and no error and the batch is handed to the sink, and neither a cycle
\* whose queries all fail nor a batch the sink rejects stops the loop: with
\* no stop signal it waits at its select, where a tick starts the next cycle.
C18_ErrorsContained ==
    /\ CycleDone =>
          /\ cycle.scrapeErr = NoError
          /\ cycle.sink \in {"consumed", "error"}
          /\ loop \in {"select", "exited"}
          /\ ~cancelled => loop = "select"
    /\ (loop = "select" /\ tick) => ENABLED LoopTick

C18_Witness ==
    /\ ~cancelled
    /\ cycle.phase = "scrape"
    /\ cycle.n = 2
    /\ cycle.prev = [allFailed |-> TRUE, sink |-> "error"]
    /\ NumQueries = 2

\* the query the measurement at position k of the batch derives from
QueryAt(k) ==
    CHOOSE i \in 1..NumQueries : cycle.batch[k].attrs["query.name"] = "q" \o ToString(i)

SummaryNames(i) == {PrefixOf(i) \o f[1] : f \in SummaryFields}

\* the bucket keys on the bucket doc_count measurements of query i, in batch
\* order
BucketKeysOf(i) ==
    LET name == PrefixOf(i) \o ".agg.levels.bucket.doc_count"
        ms == SelectSeq(BatchOf(i), LAMBDA m : m.name = name)
    IN  [k \in 1..Len(ms) |-> ms[k].attrs["bucket.key"]]

\* C19: within a cycle's batch the measurements are grouped by query in
\* configured query order; within the group of a query the five summary
\* measurements come before every aggregation measurement; and the buckets
\* of one aggregation appear in the order of the response.
C19_BatchOrder ==
    cycle.phase # "none" =>
        /\ \A k \in 1..(Len(cycle.batch) - 1) : QueryAt(k) <= QueryAt(k + 1)
        /\ \A i \in Executed :
              cycle.errs[i] = NoError =>
                  LET g == BatchOf(i)
                      summary == SummaryNames(i)
                      buckets == LevelsBuckets(i)
                  IN  /\ Len(g) >= 5
                      /\ {g[k].name : k \in 1..5} = summary
                      /\ \A k \in 6..Len(g) : g[k].name \notin summary
                      /\ BucketKeysOf(i) =
                            [b \in 1..Len(buckets) |-> Get(buckets[b], "key").str]

C19_Witness ==
    /\ CycleDone
    /\ Len(cycle.errs) = 2
    /\ cycle.errs[1] = NoError /\ cycle.errs[2] = NoError
    /\ Len(LevelsBuckets(1)) = 2
    /\ Len(cycle.batch) = 16
    /\ cycle.batch[5].name = "opensearch.query.q1.shards.failed"
    /\ cycle.batch[6].attrs["bucket.key"] = "WARN"
    /\ cycle.batch[8].attrs["bucket.key"] = "ERROR"
    /\ cycle.batch[10].name = "docs.count"

\* C23: no retry happens inside a cycle: a cycle calls ExecuteQuery once
\* per configured query, in turn, each call with at most one request, so
\* the calls made are the queries passed (and the one in flight) and a
\* finished cycle has made exactly one call per query; a failed query is
\* attempted again only by the next cycle.
C23_NoRetry ==
    cycle.phase # "none" =>
        /\ Len(cycle.errs) = cycle.qi - 1
        /\ Len(cycle.requests) = Len(cycle.backends)
        /\ Len(cycle.backends) = Len(cycle.errs) + (IF cycle.inflight THEN 1 ELSE 0)
        /\ Len(cycle.backends) <= NumQueries
        /\ CycleDone => Len(cycle.errs) = NumQueries

C23_Witness ==
    /\ CycleDone
    /\ cycle.n = 2
    /\ cycle.prev.allFailed
    /\ NumQueries = 2
    /\ cycle.errs[1] = NoError
    /\ cycle.errs[2] # NoError
    /\ cycle.requests = <<TRUE, TRUE>>

\* C26: at most one scrape cycle of a receiver is in flight at any time: a
\* cycle starts only when no cycle has run yet or the previous cycle has
\* returned, also when a tick fires while a cycle is running.
C26_OneCycleAtATime ==
    [][ncycles' # ncycles =>
          /\ ncycles' = ncycles + 1
          /\ cycle.phase \in {"none", "done"}
          /\ loop # "collect"
          /\ cycle'.phase = "scrape"]_vars

\* the second tick has fired while the cycle of the first tick is running
C26_Witness ==
    /\ cycle.phase = "scrape"
    /\ cycle.n = 2
    /\ ticks = 2
    /\ dropped = 0
    /\ tick
    /\ cycle.inflight

\* C27: the ticks that fire during a cycle coalesce into at most one
\* pending tick (every further one is dropped), and the cycle started after
\* a cycle uses up that pending tick: no tick waits once it has started, so
\* at most one cycle starts on account of the missed ticks, however many
\* intervals elapsed.
C27_TicksCoalesce ==
    [][/\ (cycle.phase = "scrape" /\ ticks' # ticks) =>
             /\ tick'
             /\ dropped' = dropped + (IF tick THEN 1 ELSE 0)
       /\ (ncycles' # ncycles /\ cycle.phase = "done") =>
             /\ tick /\ ~tick'
             /\ dropped' = dropped /\ ticks' = ticks]_vars

\* two intervals have elapsed during the first cycle and one tick waits
C27_Witness ==
    /\ cycle.phase = "scrape"
    /\ cycle.n = 1
    /\ ticks = 2
    /\ dropped = 1
    /\ tick

\* C28: with initial_delay > 0 the loop begins in its delay and no cycle
\* starts before the delay has elapsed; the first cycle starts right after
\* it, from the loop's first collect, with no tick fired; and once the stop
\* signal arrives during the delay the loop only exits and no cycle ever
\* runs.
C28_InitialDelay ==
    [][config.InitialDelay > 0 =>
          /\ (rcv = "created" /\ rcv' = "started") => loop' = "delay"
          /\ loop = "delay" => ncycles' = 0
          /\ (ncycles = 0 /\ ncycles' = 1) => (loop = "first" /\ ~tick /\ ticks = 0)
          /\ (loop = "delay" /\ cancelled) => loop' \in {"delay", "exited"}
          /\ loop = "exited" => (loop' = "exited" /\ ncycles' = ncycles)]_vars

C28_Witness ==
    /\ config.InitialDelay > 0
    /\ CycleDone
    /\ cycle.n = 1
    /\ ticks = 0
    /\ ~cancelled

\* C29: after Shutdown on a started receiver the collection loop eventually
\* terminates and stays terminated, every cycle in flight ending by its
\* replies, its timeout or the cancellation; Shutdown on a receiver that
\* was never started returns without error and starts nothing. The
\* cancellation is permanent, so "the loop is again and again either not
\* cancelled or exited" says that a cancelled loop exits.
C29_ShutdownTerminates ==
    /\ [][cancelled => cancelled']_vars
    /\ []<>(~cancelled \/ loop = "exited")
    /\ [][loop = "exited" => loop' = "exited"]_vars
    /\ [][(rcv = "created" /\ rcv' = "shutdown") =>
            (~cancelled' /\ loop' = "none" /\ ncycles' = 0)]_vars
    /\ [][(rcv' = "shutdown" /\ ~cancelled') => (loop' = "none" /\ ncycles' = 0)]_vars

\* the loop has exited after a stop that reached it in the middle of a cycle
C29_Witness ==
    /\ rcv = "shutdown"
    /\ cancelled
    /\ loop = "exited"
    /\ cycle.phase = "done"
    /\ cycle.stopped
    /\ ~cycle.late

====
